---------------------------- MODULE Spec2Model ----------------------------
(***************************************************************************)
(* Model of the trading decision engine of the AI trading bot:             *)
(*   src/trader.py         Trader (mode flags, loop, gate, execution)      *)
(*   src/ai_analyzer.py    AIAnalyzer (validation of the oracle output)    *)
(*   src/fxopen_handler.py FXOpenHandler (broker calls and their failure)  *)
(*   src/telegram_bot.py   operator commands                               *)
(*                                                                         *)
(* Trader runs on a single asyncio event loop: code between two awaits of  *)
(* an external call is atomic, and other tasks (operator commands, the     *)
(* clock) interleave only while the trading loop is suspended at such a    *)
(* call.  pc is the call the trading loop is suspended at.                 *)
(*                                                                         *)
(* Units: times are seconds (UTC, from day 0 00:00:00), prices and spreads *)
(* are pips, confidence is percent, risk:reward is the ratio times 100.    *)
(***************************************************************************)
EXTENDS Integers, Sequences, FiniteSets, TLC

\* ------------------------------------------------------------------ config
\* src/config.py (every value can be overridden from the environment); of
\* the default lists the model takes the first two symbols and the first
\* timeframe
SCAN_INTERVAL == 30
MAX_CONSECUTIVE_LOSSES == 3
MAX_OPEN_POSITIONS == 5
MAX_SPREAD_PIPS == 3
CURRENCIES == <<"EURUSD", "GBPUSD">>
TIMEFRAMES == <<"M5">>

\* src/trader.py literals
MinConfidencePct == 70
MinRiskRewardX100 == 150
DailyTradeLimit == 10
MinMarginLevel == 200
FailsafeRetryDelay == 60
\* Config.COOLDOWN_PERIOD_MINUTES, and the period in seconds
COOLDOWN_PERIOD_MINUTES == 30
COOLDOWN_PERIOD == COOLDOWN_PERIOD_MINUTES * 60
SecondsPerDay == 86400

\* ------------------------------------------------------------------ bounds
\* number of clock steps of TickLen seconds the model follows
MaxTicks == 2
\* number of operator commands the model follows
MaxCommands == 2

TickLen == SCAN_INTERVAL
\* the trader is constructed shortly before a UTC midnight, which is the last
\* time the model follows
StartTime == SecondsPerDay - MaxTicks * TickLen
MaxTime == StartTime + MaxTicks * TickLen

Symbols == {CURRENCIES[i] : i \in 1..Len(CURRENCIES)}
NumSymbols == Len(CURRENCIES)
NoTime == -1
NoField == -1

VARIABLES
    \* Trader fields (trader.py:22-27)
    is_running, is_paused, last_analysis_time, consecutive_losses,
    daily_trades, start_time,
    \* configuration switches read from the environment (config.py:55-56)
    ENABLE_FAILSAFE, CLOSE_POSITIONS_ON_STOP,
    \* the trading loop task: where it is suspended, and its locals
    pc, wake, symIdx, evalNow, tfIdx, market_data, analysis,
    \* the operator task (telegram handlers run one at a time) and the
    \* number of commands it has run
    opPc, commands,
    \* environment: UTC clock, open positions at the broker
    now, positions,
    \* history: a UTC date boundary has passed since the day anchor was set
    \* and the daily counters have not been reset since
    pendingReset,
    \* history: what happened to the symbols the cycle in progress has already
    \* left: "failed" (a data fetch, the oracle call or the order placement
    \* failed), "hold" (a HOLD with passing confidence and risk:reward was
    \* turned down by the gate)
    cycleNotes,
    \* history: for each symbol, when a failed execution of it last brought
    \* consecutive_losses to MAX_CONSECUTIVE_LOSSES
    loss_limit_time,
    \* FXOpenHandler seen alone: the handler method in progress, the HTTP
    \* requests _make_request has sent for it, its outcome for the caller, and
    \* the number of handler calls made
    reqCall, reqAttempts, reqResult, reqCount,
    \* AIAnalyzer seen alone: the oracle's response being validated
    response,
    \* the position sizing seen alone: the balance and the symbol's lot
    \* constraints, the arguments _execute_trade passes, the volume returned
    sizing,
    \* TradingBotApp (main.py): its running flag, the trading loop task and
    \* the telegram polling task start() creates, when the health monitor task
    \* wakes, and how far stop() has got
    app

traderVars == <<is_running, is_paused, last_analysis_time, consecutive_losses,
                daily_trades, start_time>>
configVars == <<ENABLE_FAILSAFE, CLOSE_POSITIONS_ON_STOP>>
loopVars == <<pc, wake, symIdx, evalNow, tfIdx, market_data, analysis>>
envVars == <<now, positions>>
opVars == <<opPc, commands>>
requestVars == <<reqCall, reqAttempts, reqResult, reqCount>>
\* the variables of the trader with its loop, and those of the collaborators
\* seen alone
mainVars == <<traderVars, configVars, loopVars, opVars, envVars, pendingReset, cycleNotes,
             loss_limit_time>>
auxVars == <<requestVars, response, sizing, app>>
vars == <<mainVars, auxVars>>

\* ------------------------------------------------------------ pure helpers
Abs(x) == IF x < 0 THEN -x ELSE x
Min(a, b) == IF a < b THEN a ELSE b
Max(a, b) == IF a > b THEN a ELSE b

\* datetime.date() of a time
Day(t) == t \div SecondsPerDay

\* the quote of a symbol as get_market_data returns it, and the sentinel
\* _get_comprehensive_market_data returns when the quote is unavailable
EntryPrice == 11000
QuoteSpreads == {1, 5}
NoData == [current_price |-> 0, spread |-> NoField, error |-> FALSE, timeframes |-> 0]
Snapshot(spread) ==
    [current_price |-> EntryPrice, spread |-> spread, error |-> FALSE, timeframes |-> 0]
SentinelSnapshot ==
    [current_price |-> 0, spread |-> NoField, error |-> TRUE, timeframes |-> 0]

\* raw oracle outputs (the parsed JSON object); complete = FALSE when one of
\* the required fields is absent; rr, spread = NoField when the key is absent
RawOutputs ==
    [signal : {"BUY", "HOLD", "STRONG_BUY"},
     complete : BOOLEAN,
     confidence : {50, 150},
     entry_price : {EntryPrice},
     stop_loss : {EntryPrice - 20},
     take_profit : {EntryPrice + 20},
     risk_reward_ratio : {NoField, 100, 200},
     spread : {NoField, 5},
     reasons_ok : BOOLEAN]

NoAnalysis ==
    [signal |-> "NONE", confidence |-> 0, entry_price |-> 0, stop_loss |-> 0,
     take_profit |-> 0, risk_reward_ratio |-> 0, spread |-> NoField,
     reasons_ok |-> TRUE]

\* AIAnalyzer._get_default_analysis
DefaultAnalysis ==
    [signal |-> "HOLD", confidence |-> 0, entry_price |-> 0, stop_loss |-> 0,
     take_profit |-> 0, risk_reward_ratio |-> 100, spread |-> NoField,
     reasons_ok |-> TRUE]

\* a derivation whose zero-risk case gives 0 instead of 1.0: the variant
\* against which DerivedRatioIsRewardOverRisk is seen to depend on the guard
\* of ai_analyzer.py:200
DerivedRiskReward_ZeroRiskAsZero(signal, entry, sl, tp) ==
    LET risk == IF signal \in {"BUY", "SELL"} THEN Abs(entry - sl) ELSE 1
        reward == IF signal \in {"BUY", "SELL"} THEN Abs(tp - entry) ELSE 1
    IN  IF risk > 0 THEN (reward * 100) \div risk ELSE 0

\* the ratio computed when the oracle gave none (ai_analyzer.py:186-200)
DerivedRiskReward(signal, entry, sl, tp) ==
    LET risk == IF signal \in {"BUY", "SELL"} THEN Abs(entry - sl) ELSE 1
        reward == IF signal \in {"BUY", "SELL"} THEN Abs(tp - entry) ELSE 1
    IN  IF risk > 0 THEN (reward * 100) \div risk ELSE 100

\* AIAnalyzer._validate_analysis_result
ValidateAnalysisResult(raw, md) ==
    IF ~raw.complete THEN DefaultAnalysis
    ELSE LET sig == IF raw.signal \in {"BUY", "SELL", "HOLD"} THEN raw.signal ELSE "HOLD"
         IN  [signal |-> sig,
              confidence |-> Max(0, Min(100, raw.confidence)),
              entry_price |-> raw.entry_price,
              stop_loss |-> raw.stop_loss,
              take_profit |-> raw.take_profit,
              risk_reward_ratio |->
                  IF raw.risk_reward_ratio # NoField THEN raw.risk_reward_ratio
                  ELSE DerivedRiskReward(sig, raw.entry_price, raw.stop_loss,
                                         raw.take_profit),
              spread |-> raw.spread,
              reasons_ok |-> raw.reasons_ok]

\* analysis.get('spread', 0): the gate reads the spread from the analysis
GateSpread(a) == IF a.spread = NoField THEN 0 ELSE a.spread

\* a gate without the HOLD check of trader.py:358-359: the variant against
\* which NoOrderForHold is seen to depend on that check
SignalPassesChecks_WithoutHoldCheck(a) ==
    /\ ~(a.confidence < MinConfidencePct)
    /\ ~(GateSpread(a) > MAX_SPREAD_PIPS)
    /\ ~(a.risk_reward_ratio < MinRiskRewardX100)

\* a gate without the confidence check of trader.py:361-363: the variant
\* against which LowConfidenceRejected is seen to depend on that check
SignalPassesChecks_WithoutConfidenceCheck(a) ==
    /\ a.signal # "HOLD"
    /\ ~(GateSpread(a) > MAX_SPREAD_PIPS)
    /\ ~(a.risk_reward_ratio < MinRiskRewardX100)

\* Trader._is_signal_actionable up to its await of get_positions
SignalPassesChecks(a) ==
    /\ a.signal # "HOLD"
    /\ ~(a.confidence < MinConfidencePct)
    /\ ~(GateSpread(a) > MAX_SPREAD_PIPS)
    /\ ~(a.risk_reward_ratio < MinRiskRewardX100)

\* open positions: per configured symbol, and on other instruments
PosKeys == Symbols \cup {"OTHER"}
RECURSIVE SumOver(_, _)
SumOver(f, S) ==
    IF S = {} THEN 0
    ELSE LET k == CHOOSE x \in S : TRUE IN f[k] + SumOver(f, S \ {k})
PositionCount(p) == SumOver(p, PosKeys)
NoPositions == [k \in PosKeys |-> 0]

\* Trader._is_signal_actionable after get_positions returned current_positions
ExposureAllows(current_positions, symbol) ==
    /\ ~(PositionCount(current_positions) >= MAX_OPEN_POSITIONS)
    /\ current_positions[symbol] = 0

\* account snapshots get_account_info can return
AccountInfos ==
    [Balance : {0, 10000}, Equity : {0, 10000}, MarginLevel : {0, 150, 500}]

\* Trader._can_trade
CanTrade(info, dailyTrades, losses) ==
    /\ ~(info.Balance <= 0 \/ info.Equity <= 0)
    /\ ~(info.MarginLevel > 0 /\ info.MarginLevel < MinMarginLevel)
    /\ ~(dailyTrades >= DailyTradeLimit)
    /\ ~(losses >= MAX_CONSECUTIVE_LOSSES)

\* Trader._check_failsafe_conditions: FailsafeManager (failsafe.py) has no
\* check_trading_conditions, so the call raises and the handler returns False
CheckFailsafeConditions == IF ~ENABLE_FAILSAFE THEN TRUE ELSE FALSE

\* Trader._check_daily_reset: does the reset fire at time t
DailyResetDue(t) == start_time # NoTime /\ Day(t) > Day(start_time)

\* the time check at the head of Trader._evaluate_symbol
Due(symbol, lat) ==
    lat[symbol] = NoTime \/ ~(now - lat[symbol] < SCAN_INTERVAL)

RECURSIVE FirstDue(_, _)
FirstDue(i, lat) ==
    IF i > NumSymbols THEN NumSymbols + 1
    ELSE IF Due(CURRENCIES[i], lat) THEN i ELSE FirstDue(i + 1, lat)

\* no handler call, no oracle response and no sizing is being followed, and
\* TradingBotApp.start has not been called
NoSizing == [stage |-> "none"]
NoApp == [running |-> FALSE, loop_task |-> "none", polling |-> "none",
          health_wake |-> NoTime, stop |-> "none"]
NoResponse == [kind |-> "none"]
AuxIdle ==
    /\ reqCall = "none"
    /\ reqAttempts = 0
    /\ reqResult = "none"
    /\ reqCount = 0
    /\ response = NoResponse
    /\ sizing = NoSizing
    /\ app = NoApp

\* ------------------------------------------------------------------- Init
\* Trader.__init__ (trader.py:22-27); the loop task does not exist yet; the
\* account may already hold positions on other instruments
TraderInit ==
    /\ is_running = FALSE
    /\ is_paused = FALSE
    /\ last_analysis_time = [s \in Symbols |-> NoTime]
    /\ consecutive_losses = 0
    /\ daily_trades = 0
    /\ start_time = NoTime
    /\ ENABLE_FAILSAFE \in BOOLEAN
    /\ pc = "idle"
    /\ wake = 0
    /\ symIdx = 0
    /\ evalNow = NoTime
    /\ tfIdx = 0
    /\ market_data = NoData
    /\ analysis = NoAnalysis
    /\ opPc = "none"
    /\ commands = 0
    /\ now = StartTime
    /\ positions = [NoPositions EXCEPT !["OTHER"] = MAX_OPEN_POSITIONS - 1]
    /\ pendingReset = FALSE
    /\ cycleNotes = {}
    /\ loss_limit_time = [s \in Symbols |-> NoTime]
    /\ AuxIdle

\* the default configuration: CLOSE_POSITIONS_ON_STOP is false (config.py:56)
Init == TraderInit /\ CLOSE_POSITIONS_ON_STOP = FALSE

\* ------------------------------------------------------- the trading loop
Symbol == CURRENCIES[symIdx]

\* the notes of the cycle once the current symbol is left with `outcome`
Noted(outcome) ==
    cycleNotes
        \cup (IF \/ outcome = "failed"
                 \/ market_data.error
                 \/ (pc # "get_market_data" /\ pc # "get_historical_data"
                        /\ market_data.timeframes < Len(TIMEFRAMES))
              THEN {"failed"} ELSE {})
        \cup (IF outcome = "hold" THEN {"hold"} ELSE {})

\* the end of a cycle: evaluate_and_execute returns, having taken `taken`
\* symbols in its for loop, and the loop sleeps (trader.py:87)
EndCycle(taken) ==
    /\ pc' = "sleep"
    /\ wake' = now + SCAN_INTERVAL
    /\ symIdx' = taken
    /\ evalNow' = NoTime
    /\ tfIdx' = 0
    /\ market_data' = NoData
    /\ analysis' = NoAnalysis
    /\ cycleNotes' = {}

\* the for loop of evaluate_and_execute (trader.py:106-110) goes on with the
\* i-th symbol: symbols analysed less than SCAN_INTERVAL ago return at once
\* (trader.py:119-123), the first other one is suspended at its market data
\* fetch; after the last symbol the cycle ends
ContinueCycle(i, lat, notes) ==
    LET j == FirstDue(i, lat)
    IN  IF j <= NumSymbols
        THEN /\ pc' = "get_market_data"
             /\ symIdx' = j
             /\ evalNow' = now
             /\ wake' = wake
             /\ tfIdx' = 0
             /\ market_data' = NoData
             /\ analysis' = NoAnalysis
             /\ cycleNotes' = notes
        ELSE EndCycle(NumSymbols)

\* the loop is at the head of its while statement (trader.py:66): it was just
\* started, or its sleep is over
AtLoopHead == pc = "idle" \/ (pc = "sleep" /\ now >= wake)

\* Trader._check_daily_reset (trader.py:529-544)
CheckDailyReset ==
    IF DailyResetDue(now)
    THEN /\ daily_trades' = 0
         /\ consecutive_losses' = 0
         /\ start_time' = now
         /\ pendingReset' = FALSE
    ELSE UNCHANGED <<daily_trades, consecutive_losses, start_time, pendingReset>>

\* start_trading_loop with is_running false: the while loop is not entered,
\* or is left (trader.py:66)
LoopExits ==
    /\ AtLoopHead
    /\ ~is_running
    /\ pc' = "idle"
    /\ symIdx' = 0
    /\ UNCHANGED <<traderVars, configVars, wake, evalNow, tfIdx,
                   market_data, analysis, opVars, envVars, pendingReset,
                   cycleNotes>>
    /\ UNCHANGED <<loss_limit_time, auxVars>>

\* trader.py:69-71
LoopSleepsPaused ==
    /\ AtLoopHead
    /\ is_running /\ is_paused
    /\ pc' = "sleep"
    /\ wake' = now + SCAN_INTERVAL
    /\ symIdx' = 0
    /\ UNCHANGED <<traderVars, configVars, evalNow, tfIdx,
                   market_data, analysis, opVars, envVars, pendingReset,
                   cycleNotes>>
    /\ UNCHANGED <<loss_limit_time, auxVars>>

\* trader.py:74-81: daily reset, then the failsafe check fails and pauses
LoopFailsafePauses ==
    /\ AtLoopHead
    /\ is_running /\ ~is_paused
    /\ CheckDailyReset
    /\ ~CheckFailsafeConditions
    /\ is_paused' = TRUE
    /\ pc' = "sleep"
    /\ wake' = now + FailsafeRetryDelay
    /\ symIdx' = 0
    /\ UNCHANGED <<is_running, last_analysis_time, configVars, evalNow,
                   tfIdx, market_data, analysis, opVars, envVars, cycleNotes>>
    /\ UNCHANGED <<loss_limit_time, auxVars>>

\* trader.py:74-84 and 97: daily reset, failsafe passed, evaluate_and_execute
\* is suspended at get_account_info
LoopBeginsCycle ==
    /\ AtLoopHead
    /\ is_running /\ ~is_paused
    /\ CheckDailyReset
    /\ CheckFailsafeConditions
    /\ pc' = "get_account_info"
    /\ symIdx' = 0
    /\ UNCHANGED <<is_running, is_paused, last_analysis_time, configVars, wake,
                   evalNow, tfIdx, market_data, analysis, opVars, envVars,
                   cycleNotes>>
    /\ UNCHANGED <<loss_limit_time, auxVars>>

\* get_account_info raises (fxopen_handler.py:110-112); evaluate_and_execute
\* logs it (trader.py:112) and the loop sleeps
AccountInfoFails ==
    /\ pc = "get_account_info"
    /\ EndCycle(0)
    /\ UNCHANGED <<traderVars, configVars, opVars, envVars, pendingReset>>
    /\ UNCHANGED <<loss_limit_time, auxVars>>

\* _can_trade refuses (trader.py:102-103)
CycleBlocked ==
    /\ pc = "get_account_info"
    /\ \E info \in AccountInfos :
           ~CanTrade(info, daily_trades, consecutive_losses)
    /\ EndCycle(0)
    /\ UNCHANGED <<traderVars, configVars, opVars, envVars, pendingReset>>
    /\ UNCHANGED <<loss_limit_time, auxVars>>

\* _can_trade allows: the for loop over the symbols starts (trader.py:106)
CycleStarts ==
    /\ pc = "get_account_info"
    /\ \E info \in AccountInfos :
           CanTrade(info, daily_trades, consecutive_losses)
    /\ ContinueCycle(1, last_analysis_time, {})
    /\ UNCHANGED <<traderVars, configVars, opVars, envVars, pendingReset>>
    /\ UNCHANGED <<loss_limit_time, auxVars>>

\* a for loop in which a failure met while a symbol is fetched, analysed or
\* executed is not absorbed (trader.py:107-110, 138-139, 177-179, 464-468) but
\* ends evaluate_and_execute: the variant against which
\* FailureLeavesOtherSymbols is seen to depend on those handlers
AfterSymbol_FailureEndsCycle(lat, outcome) ==
    IF "failed" \in Noted(outcome)
    THEN EndCycle(symIdx)
    ELSE ContinueCycle(symIdx + 1, lat, Noted(outcome))

\* _evaluate_symbol has returned, or its exception was logged
\* (trader.py:107-110, 138-139): the for loop takes the next symbol
AfterSymbol(lat, outcome) == ContinueCycle(symIdx + 1, lat, Noted(outcome))

\* get_market_data raises (fxopen_handler.py:159-161):
\* _get_comprehensive_market_data returns the sentinel (trader.py:177-179) and
\* _evaluate_symbol goes on to the oracle call with it (trader.py:126-129)
QuoteFails ==
    /\ pc = "get_market_data"
    /\ market_data' = SentinelSnapshot
    /\ pc' = "oracle"
    /\ UNCHANGED <<traderVars, configVars, wake, symIdx, evalNow, tfIdx,
                   analysis, opVars, envVars, pendingReset, cycleNotes>>
    /\ UNCHANGED <<loss_limit_time, auxVars>>

\* get_market_data returns the quote (fxopen_handler.py:143-155); the first
\* timeframe's history is requested (trader.py:149-151)
QuoteReturns ==
    /\ pc = "get_market_data"
    /\ \E spread \in QuoteSpreads : market_data' = Snapshot(spread)
    /\ pc' = "get_historical_data"
    /\ tfIdx' = 1
    /\ UNCHANGED <<traderVars, configVars, wake, symIdx, evalNow, analysis,
                   opVars, envVars, pendingReset, cycleNotes>>
    /\ UNCHANGED <<loss_limit_time, auxVars>>

\* after the history of timeframe tfIdx: the next timeframe, or the snapshot
\* is complete and the oracle is called (trader.py:149-175, 129)
NextTimeframe ==
    IF tfIdx < Len(TIMEFRAMES)
    THEN pc' = "get_historical_data" /\ tfIdx' = tfIdx + 1
    ELSE pc' = "oracle" /\ tfIdx' = 0

\* get_historical_data returns candles (fxopen_handler.py:172-177)
HistoryReturns ==
    /\ pc = "get_historical_data"
    /\ market_data' = [market_data EXCEPT !.timeframes = @ + 1]
    /\ NextTimeframe
    /\ UNCHANGED <<traderVars, configVars, wake, symIdx, evalNow, analysis,
                   opVars, envVars, pendingReset, cycleNotes>>
    /\ UNCHANGED <<loss_limit_time, auxVars>>

\* the request fails: get_historical_data returns [] (fxopen_handler.py:179-181)
\* and the timeframe is left out of the snapshot (trader.py:152)
HistoryFails ==
    /\ pc = "get_historical_data"
    /\ NextTimeframe
    /\ UNCHANGED <<traderVars, configVars, wake, symIdx, evalNow, market_data,
                   analysis, opVars, envVars, pendingReset, cycleNotes>>
    /\ UNCHANGED <<loss_limit_time, auxVars>>

\* an _evaluate_symbol without the assignment of trader.py:132: the variant
\* against which EvaluationsAreSpaced is seen to depend on the timestamp
Evaluate_WithoutTimestamp(a, failed) ==
    /\ last_analysis_time' = last_analysis_time
    /\ IF SignalPassesChecks(a)
       THEN /\ pc' = "get_positions"
            /\ analysis' = a
            /\ UNCHANGED <<wake, symIdx, evalNow, tfIdx, market_data,
                           cycleNotes>>
       ELSE AfterSymbol(last_analysis_time,
                IF failed THEN "failed"
                ELSE IF /\ a.signal = "HOLD"
                        /\ a.confidence >= MinConfidencePct
                        /\ a.risk_reward_ratio >= MinRiskRewardX100
                     THEN "hold" ELSE "rejected")

\* _evaluate_symbol from the return of analyze_market_data with analysis a
\* (trader.py:131-136): the analysis time is the time read before the fetch;
\* a signal that passes the checks waits for get_positions (trader.py:379)
Evaluate(a, failed) ==
    LET lat == [last_analysis_time EXCEPT ![Symbol] = evalNow]
    IN  /\ last_analysis_time' = lat
        /\ IF SignalPassesChecks(a)
           THEN /\ pc' = "get_positions"
                /\ analysis' = a
                /\ UNCHANGED <<wake, symIdx, evalNow, tfIdx, market_data,
                               cycleNotes>>
           ELSE AfterSymbol(lat,
                    IF failed THEN "failed"
                    ELSE IF /\ a.signal = "HOLD"
                            /\ a.confidence >= MinConfidencePct
                            /\ a.risk_reward_ratio >= MinRiskRewardX100
                         THEN "hold" ELSE "rejected")

\* the oracle call raises: analyze_market_data returns the default analysis
\* (ai_analyzer.py:75-77)
OracleFails ==
    /\ pc = "oracle"
    /\ Evaluate(DefaultAnalysis, TRUE)
    /\ UNCHANGED <<is_running, is_paused, consecutive_losses, daily_trades,
                   start_time, configVars, opVars, envVars, pendingReset>>
    /\ UNCHANGED <<loss_limit_time, auxVars>>

\* the oracle answers; the answer is validated (ai_analyzer.py:67-73)
OracleReturns ==
    /\ pc = "oracle"
    /\ \E a \in {ValidateAnalysisResult(raw, market_data) : raw \in RawOutputs} :
           Evaluate(a, FALSE)
    /\ UNCHANGED <<is_running, is_paused, consecutive_losses, daily_trades,
                   start_time, configVars, opVars, envVars, pendingReset>>
    /\ UNCHANGED <<loss_limit_time, auxVars>>

\* _is_signal_actionable from the return of get_positions (trader.py:380-390);
\* an accepted signal enters _execute_trade, which is suspended in
\* calculate_position_size (trader.py:399-411)
CheckExposure(current_positions) ==
    IF ExposureAllows(current_positions, Symbol)
    THEN /\ pc' = "calculate_position_size"
         /\ UNCHANGED <<wake, symIdx, evalNow, tfIdx, market_data, analysis,
                        cycleNotes>>
    ELSE AfterSymbol(last_analysis_time, "rejected")

\* get_positions returns the open positions (fxopen_handler.py:126-131)
PositionsReturn ==
    /\ pc = "get_positions"
    /\ CheckExposure(positions)
    /\ UNCHANGED <<traderVars, configVars, opVars, envVars, pendingReset>>
    /\ UNCHANGED <<loss_limit_time, auxVars>>

\* the positions request fails: get_positions returns [] (fxopen_handler.py:133-135)
PositionsQueryFails ==
    /\ pc = "get_positions"
    /\ CheckExposure(NoPositions)
    /\ UNCHANGED <<traderVars, configVars, opVars, envVars, pendingReset>>
    /\ UNCHANGED <<loss_limit_time, auxVars>>

\* calculate_position_size returns a volume (it never raises,
\* fxopen_handler.py:368-370); place_order is called (trader.py:414-425)
PositionSizeReturns ==
    /\ pc = "calculate_position_size"
    /\ pc' = "place_order"
    /\ UNCHANGED <<traderVars, configVars, wake, symIdx, evalNow, tfIdx,
                   market_data, analysis, opVars, envVars, pendingReset, cycleNotes>>
    /\ UNCHANGED <<loss_limit_time, auxVars>>

\* an except clause that also counts the failed execution as a trade of the
\* day: the variant against which FailedOrderCountsOneLoss is seen to depend
\* on the clause leaving daily_trades alone
ExecutionError_CountingTrade(outcome) ==
    /\ consecutive_losses' = consecutive_losses + 1
    /\ daily_trades' = daily_trades + 1
    /\ loss_limit_time' =
           IF consecutive_losses + 1 = MAX_CONSECUTIVE_LOSSES
           THEN [loss_limit_time EXCEPT ![Symbol] = now]
           ELSE loss_limit_time
    /\ AfterSymbol(last_analysis_time, outcome)
    /\ UNCHANGED <<is_running, is_paused, last_analysis_time, start_time>>

\* the except clause of _execute_trade (trader.py:464-468)
ExecutionError(outcome) ==
    /\ consecutive_losses' = consecutive_losses + 1
    /\ loss_limit_time' =
           IF consecutive_losses + 1 = MAX_CONSECUTIVE_LOSSES
           THEN [loss_limit_time EXCEPT ![Symbol] = now]
           ELSE loss_limit_time
    /\ AfterSymbol(last_analysis_time, outcome)
    /\ UNCHANGED <<is_running, is_paused, last_analysis_time, daily_trades,
                   start_time>>

\* place_order raises (fxopen_handler.py:231-233)
PlaceOrderFails ==
    /\ pc = "place_order"
    /\ ExecutionError("failed")
    /\ UNCHANGED <<configVars, opVars, envVars, pendingReset>>
    /\ UNCHANGED auxVars

\* place_order returns an empty response body: `if result` is false
\* (trader.py:427)
PlaceOrderEmpty ==
    /\ pc = "place_order"
    /\ AfterSymbol(last_analysis_time, "empty")
    /\ UNCHANGED <<traderVars, configVars, opVars, envVars, pendingReset>>
    /\ UNCHANGED <<loss_limit_time, auxVars>>

\* place_order returns the broker's confirmation: the position is open.
\* trade_data is built (trader.py:429-440; joining reasons that are not a
\* list of strings raises) and record_trade is called with it; it appends
\* the trade (earnings_tracker.py:77) and is suspended saving
PlaceOrderFilled ==
    /\ pc = "place_order"
    /\ positions' = [positions EXCEPT ![Symbol] = @ + 1]
    /\ IF analysis.reasons_ok
       THEN /\ pc' = "post_trade"
            /\ UNCHANGED <<traderVars, wake, symIdx, evalNow, tfIdx,
                           market_data, analysis, cycleNotes, loss_limit_time>>
       ELSE ExecutionError("unrecorded")
    /\ UNCHANGED <<configVars, opVars, now, pendingReset>>
    /\ UNCHANGED auxVars

\* record_trade, the screenshot and the notification are over (none of them
\* raises: earnings_tracker.py:84, trader.py:450, telegram_bot.py:70); the
\* counters are updated (trader.py:458-460)
PostTradeCompletes ==
    /\ pc = "post_trade"
    /\ consecutive_losses' = 0
    /\ daily_trades' = daily_trades + 1
    /\ AfterSymbol(last_analysis_time, "placed")
    /\ UNCHANGED <<is_running, is_paused, last_analysis_time, start_time,
                   configVars, opVars, envVars, pendingReset>>
    /\ UNCHANGED <<loss_limit_time, auxVars>>

\* ------------------------------------------------ operator and environment
\* no handler is running, and the operator has commands left
OperatorIdle == opPc = "none" /\ commands < MaxCommands

\* a start() that also zeroes the risk counters: the variant against which
\* ExecutionsAreSerialized is seen to depend on the loop being the only
\* writer of the counters
Start_ResettingCounters ==
    /\ OperatorIdle
    /\ commands' = commands + 1
    /\ is_running' = TRUE
    /\ is_paused' = FALSE
    /\ start_time' = now
    /\ consecutive_losses' = 0
    /\ daily_trades' = 0
    /\ UNCHANGED <<last_analysis_time, configVars, loopVars, opPc, envVars,
                   pendingReset, cycleNotes>>
    /\ UNCHANGED <<loss_limit_time, auxVars>>

\* Trader.start (trader.py:29-34), from /start_trading
Start ==
    /\ OperatorIdle
    /\ commands' = commands + 1
    /\ is_running' = TRUE
    /\ is_paused' = FALSE
    /\ start_time' = now
    /\ UNCHANGED <<last_analysis_time, consecutive_losses, daily_trades,
                   configVars, loopVars, opPc, envVars, pendingReset, cycleNotes>>
    /\ UNCHANGED <<loss_limit_time, auxVars>>

\* Trader.pause (trader.py:36-39), from /stop_trading
Pause ==
    /\ OperatorIdle
    /\ commands' = commands + 1
    /\ is_paused' = TRUE
    /\ UNCHANGED <<is_running, last_analysis_time, consecutive_losses,
                   daily_trades, start_time, configVars, loopVars, opPc,
                   envVars, pendingReset, cycleNotes>>
    /\ UNCHANGED <<loss_limit_time, auxVars>>

\* Trader.stop (trader.py:41-45)
StopFlags ==
    /\ is_running' = FALSE
    /\ is_paused' = FALSE
    /\ UNCHANGED <<last_analysis_time, consecutive_losses, daily_trades,
                   start_time>>

Stop ==
    /\ OperatorIdle
    /\ commands' = commands + 1
    /\ StopFlags
    /\ UNCHANGED <<configVars, loopVars, opPc, envVars, pendingReset, cycleNotes>>
    /\ UNCHANGED <<loss_limit_time, auxVars>>

\* an emergency_stop that closes the positions first and stops afterwards
\* (the order TradingBotApp.stop uses, main.py:202-211): the variant against
\* which EmergencyStopStops is seen to depend on stop() coming first
EmergencyStop_ClosingFirst ==
    /\ OperatorIdle
    /\ commands' = commands + 1
    /\ IF CLOSE_POSITIONS_ON_STOP
       THEN opPc' = "close_all_positions" /\ UNCHANGED traderVars
       ELSE opPc' = "none" /\ StopFlags
    /\ UNCHANGED <<configVars, loopVars, envVars, pendingReset, cycleNotes>>
    /\ UNCHANGED <<loss_limit_time, auxVars>>

\* Trader.emergency_stop (trader.py:47-60): stop, then close_all_positions
\* when configured
EmergencyStop ==
    /\ OperatorIdle
    /\ commands' = commands + 1
    /\ StopFlags
    /\ opPc' = IF CLOSE_POSITIONS_ON_STOP THEN "close_all_positions" ELSE "none"
    /\ UNCHANGED <<configVars, loopVars, envVars, pendingReset, cycleNotes>>
    /\ UNCHANGED <<loss_limit_time, auxVars>>

\* close_all_positions returns (fxopen_handler.py:255-276): the positions
\* are closed, or none is (the positions request failed, or every close did)
CloseAllReturns ==
    /\ opPc = "close_all_positions"
    /\ opPc' = "none"
    /\ commands' = commands
    /\ positions' \in {positions, NoPositions}
    /\ UNCHANGED <<traderVars, configVars, loopVars, now, pendingReset,
                   cycleNotes>>
    /\ UNCHANGED <<loss_limit_time, auxVars>>

\* close_all_positions raises; Trader.close_all_positions logs and re-raises
\* (trader.py:476-478), the except clause of emergency_stop logs
\* (trader.py:59-60) and emergency_stop returns
CloseAllRaises ==
    /\ opPc = "close_all_positions"
    /\ opPc' = "none"
    /\ commands' = commands
    /\ UNCHANGED <<traderVars, configVars, loopVars, envVars, pendingReset,
                   cycleNotes>>
    /\ UNCHANGED <<loss_limit_time, auxVars>>

\* time passes
Tick ==
    /\ now + TickLen <= MaxTime
    /\ now' = now + TickLen
    /\ pendingReset' =
           (pendingReset \/ (start_time # NoTime /\ Day(now + TickLen) > Day(now)))
    /\ UNCHANGED <<traderVars, configVars, loopVars, opVars, positions, cycleNotes>>
    /\ UNCHANGED <<loss_limit_time, auxVars>>

Next ==
    \/ LoopExits
    \/ LoopSleepsPaused
    \/ LoopFailsafePauses
    \/ LoopBeginsCycle
    \/ AccountInfoFails
    \/ CycleBlocked
    \/ CycleStarts
    \/ QuoteFails
    \/ QuoteReturns
    \/ HistoryReturns
    \/ HistoryFails
    \/ OracleFails
    \/ OracleReturns
    \/ PositionsReturn
    \/ PositionsQueryFails
    \/ PositionSizeReturns
    \/ PlaceOrderFails
    \/ PlaceOrderEmpty
    \/ PlaceOrderFilled
    \/ PostTradeCompletes
    \/ Start
    \/ Pause
    \/ Stop
    \/ EmergencyStop
    \/ Tick

Spec == Init /\ [][Next]_vars

\* ------------------------------------------------- the emergency stop
\* the trader under either value of CLOSE_POSITIONS_ON_STOP, with
\* emergency_stop as the only stop command
EmergencyInit == TraderInit /\ CLOSE_POSITIONS_ON_STOP \in BOOLEAN

EmergencyNext ==
    \/ LoopExits
    \/ LoopSleepsPaused
    \/ LoopFailsafePauses
    \/ LoopBeginsCycle
    \/ AccountInfoFails
    \/ CycleBlocked
    \/ CycleStarts
    \/ QuoteFails
    \/ QuoteReturns
    \/ HistoryReturns
    \/ HistoryFails
    \/ OracleFails
    \/ OracleReturns
    \/ PositionsReturn
    \/ PositionsQueryFails
    \/ PositionSizeReturns
    \/ PlaceOrderFails
    \/ PlaceOrderEmpty
    \/ PlaceOrderFilled
    \/ PostTradeCompletes
    \/ Start
    \/ Pause
    \/ EmergencyStop
    \/ CloseAllReturns
    \/ CloseAllRaises
    \/ Tick

EmergencySpec == EmergencyInit /\ [][EmergencyNext]_vars

\* ------------------------------------------- the broker handler seen alone
\* FXOpenHandler: each method sends its request through _make_request
\* (fxopen_handler.py:53-90), which sends it once and raises on a timeout, on
\* a status other than 200 and on any client error
HandlerCalls == {"get_account_info", "get_positions", "get_market_data",
                 "get_historical_data", "place_order"}
\* the methods whose except clause returns [] (fxopen_handler.py:133-135,
\* 179-181); the others log and re-raise (fxopen_handler.py:110-112, 159-161,
\* 231-233)
SwallowingCalls == {"get_positions", "get_historical_data"}
\* number of handler calls the model follows
MaxCalls == 7

\* a method of the handler is called: _make_request sends the request
\* (fxopen_handler.py:63-69)
HandlerCalled ==
    /\ reqResult # "pending"
    /\ reqCount < MaxCalls
    /\ \E call \in HandlerCalls : reqCall' = call
    /\ reqAttempts' = 1
    /\ reqResult' = "pending"
    /\ reqCount' = reqCount + 1
    /\ UNCHANGED <<mainVars, response, sizing, app>>

\* status 200: the body is returned (fxopen_handler.py:73-77)
RequestAnswered ==
    /\ reqResult = "pending"
    /\ reqResult' = "returned"
    /\ UNCHANGED <<mainVars, reqCall, reqAttempts, reqCount, response, sizing, app>>

\* a timeout, another status or a client error: _make_request raises
\* (fxopen_handler.py:78-90) and the method returns [] or re-raises
RequestFails ==
    /\ reqResult = "pending"
    /\ reqResult' = IF reqCall \in SwallowingCalls THEN "empty_list" ELSE "raised"
    /\ UNCHANGED <<mainVars, reqCall, reqAttempts, reqCount, response, sizing, app>>

RequestNext ==
    \/ HandlerCalled
    \/ RequestAnswered
    \/ RequestFails

RequestSpec == Init /\ [][RequestNext]_vars

\* ------------------------------------------ the analyzer and the gate alone
\* AIAnalyzer.analyze_market_data (ai_analyzer.py:34-77) and the checks of
\* Trader._is_signal_actionable (trader.py:352-393), applied to every response
\* of the oracle below and to the snapshots of a quoted and of an unquoted
\* symbol.

\* a JSON value float() does not accept (a word, null, a list)
NotNumber == -2
RequiredFields == {"signal", "confidence", "entry_price", "stop_loss", "take_profit"}
PriceFields == {"entry_price", "stop_loss", "take_profit"}

\* the parsed JSON object of a response: `absent` holds the required keys the
\* object lacks (the value modelled for an absent key is never read);
\* risk_reward_ratio, spread = NoField when the key is absent
ResponseObjects ==
    [kind : {"object"},
     absent : {{}} \cup {{f} : f \in RequiredFields} \cup {PriceFields},
     signal : {"BUY", "SELL", "HOLD", "STRONG_BUY"},
     confidence : {NotNumber, -50, MinConfidencePct - 1, MinConfidencePct, 150},
     entry_price : {EntryPrice, NotNumber},
     stop_loss : {EntryPrice - 20, EntryPrice},
     take_profit : {EntryPrice + 20, EntryPrice + 40},
     risk_reward_ratio : {NoField, 100, 200},
     spread : {NoField, 1, 5}]

\* the oracle call raises ("raised"), or its content is not JSON
\* ("unparsable": json.loads raises, ai_analyzer.py:67)
FailedResponses ==
    {[kind |-> k, absent |-> {}, signal |-> "HOLD", confidence |-> 0,
      entry_price |-> 0, stop_loss |-> 0, take_profit |-> 0,
      risk_reward_ratio |-> NoField, spread |-> NoField] :
         k \in {"raised", "unparsable"}}

Responses == ResponseObjects \cup FailedResponses

\* does _validate_analysis_result raise on the object: float() of the
\* confidence (ai_analyzer.py:175) or, with a quoted price, of a price
\* (178-183); or abs() of a difference of prices when the ratio is derived
\* for a BUY or SELL (186-196)
ConversionFails(resp, md) ==
    LET prices == {resp.entry_price, resp.stop_loss, resp.take_profit}
    IN  \/ resp.confidence = NotNumber
        \/ md.current_price > 0 /\ NotNumber \in prices
        \/ /\ resp.risk_reward_ratio = NoField
           /\ resp.signal \in {"BUY", "SELL"}
           /\ NotNumber \in prices

\* an analyze_market_data that passes the object on as the oracle gave it:
\* the variant against which AnalysisIsTotal is seen to depend on the
\* validation
AnalyzeMarketData_WithoutValidation(resp, md) ==
    IF resp.kind # "object" THEN DefaultAnalysis
    ELSE [signal |-> resp.signal,
          confidence |-> resp.confidence,
          entry_price |-> resp.entry_price,
          stop_loss |-> resp.stop_loss,
          take_profit |-> resp.take_profit,
          risk_reward_ratio |-> resp.risk_reward_ratio,
          spread |-> resp.spread,
          reasons_ok |-> TRUE]

\* AIAnalyzer.analyze_market_data from the oracle's response: any exception,
\* of the call, of json.loads or inside the validation, gives the default
\* analysis (ai_analyzer.py:75-77, 208-210)
AnalyzeMarketData(resp, md) ==
    IF resp.kind # "object" THEN DefaultAnalysis
    ELSE IF resp.absent = {} /\ ConversionFails(resp, md) THEN DefaultAnalysis
    ELSE ValidateAnalysisResult(
             [signal |-> resp.signal,
              complete |-> resp.absent = {},
              confidence |-> resp.confidence,
              entry_price |-> resp.entry_price,
              stop_loss |-> resp.stop_loss,
              take_profit |-> resp.take_profit,
              risk_reward_ratio |-> resp.risk_reward_ratio,
              spread |-> resp.spread,
              reasons_ok |-> TRUE], md)

\* positions the broker can report when the gate asks
GatePositions ==
    {NoPositions,
     [NoPositions EXCEPT !["OTHER"] = MAX_OPEN_POSITIONS],
     [NoPositions EXCEPT !["EURUSD"] = 1]}

\* _evaluate_symbol for the first symbol is suspended in analyze_market_data
AnalysisInit ==
    /\ is_running = TRUE
    /\ is_paused = FALSE
    /\ last_analysis_time = [s \in Symbols |-> NoTime]
    /\ consecutive_losses = 0
    /\ daily_trades = 0
    /\ start_time = StartTime
    /\ ENABLE_FAILSAFE = FALSE
    /\ CLOSE_POSITIONS_ON_STOP = FALSE
    /\ pc = "oracle"
    /\ wake = 0
    /\ symIdx = 1
    /\ evalNow = StartTime
    /\ tfIdx = 0
    /\ market_data \in {Snapshot(sp) : sp \in QuoteSpreads} \cup {SentinelSnapshot}
    /\ analysis = NoAnalysis
    /\ opPc = "none"
    /\ commands = 0
    /\ now = StartTime
    /\ positions \in GatePositions
    /\ pendingReset = FALSE
    /\ cycleNotes = {}
    /\ loss_limit_time = [s \in Symbols |-> NoTime]
    /\ AuxIdle

\* analyze_market_data returns (ai_analyzer.py:73, 77)
AnalysisReturns ==
    /\ pc = "oracle"
    /\ \E resp \in Responses :
           /\ response' = resp
           /\ analysis' = AnalyzeMarketData(resp, market_data)
    /\ pc' = "is_signal_actionable"
    /\ UNCHANGED <<traderVars, configVars, wake, symIdx, evalNow, tfIdx,
                   market_data, opVars, envVars, pendingReset, cycleNotes,
                   loss_limit_time, requestVars, sizing, app>>

\* the signal checks of _is_signal_actionable (trader.py:354-376)
SignalChecked ==
    /\ pc = "is_signal_actionable"
    /\ pc' = IF SignalPassesChecks(analysis) THEN "get_positions" ELSE "rejected"
    /\ UNCHANGED <<traderVars, configVars, wake, symIdx, evalNow, tfIdx,
                   market_data, analysis, opVars, envVars, pendingReset,
                   cycleNotes, loss_limit_time, auxVars>>

\* the exposure checks once get_positions has returned (trader.py:379-390)
ExposureChecked ==
    /\ pc = "get_positions"
    /\ pc' = IF ExposureAllows(positions, Symbol)
             THEN "calculate_position_size" ELSE "rejected"
    /\ UNCHANGED <<traderVars, configVars, wake, symIdx, evalNow, tfIdx,
                   market_data, analysis, opVars, envVars, pendingReset,
                   cycleNotes, loss_limit_time, auxVars>>

AnalysisNext ==
    \/ AnalysisReturns
    \/ SignalChecked
    \/ ExposureChecked

AnalysisSpec == AnalysisInit /\ [][AnalysisNext]_vars

\* ------------------------------------------------ the position sizing alone
\* _execute_trade up to its call of calculate_position_size (trader.py:399-411)
\* and FXOpenHandler.calculate_position_size (fxopen_handler.py:334-370).
\* Money is in units of the account currency, volumes in hundredths of a lot,
\* pip sizes in units of 0.0001, stop distances in pips.

\* Config.MAX_RISK_PERCENT
MAX_RISK_PERCENT == 2
\* the volume returned when the calculation raises (fxopen_handler.py:370)
FallbackVolume == 1
\* the values symbol_info.get(...) falls back to (fxopen_handler.py:347, 360-361)
DefaultPipSize == 1
DefaultMinLot == 1
DefaultLotStep == 1

\* account balances, and distances between entry and stop in pips
Balances == {600, 10000}
StopDistances == {0, 1, 12, 20}

\* the lot constraints the broker has for the symbol
LotRules ==
    {r \in [PipSize : {1, 100}, MinLot : {1, 10}, LotStep : {1, 10}] :
        r.MinLot % r.LotStep = 0}

\* what get_symbols delivers for the symbol: nothing (the request failed and
\* [] was returned, or the symbol is not listed), its entry with the lot
\* constraints, or an entry without the PipSize, MinLot and LotStep keys
NoInfo == [found |-> FALSE, PipSize |-> NoField, MinLot |-> NoField, LotStep |-> NoField]
SymbolInfos(r) ==
    {NoInfo,
     [found |-> TRUE, PipSize |-> r.PipSize, MinLot |-> r.MinLot, LotStep |-> r.LotStep],
     [found |-> TRUE, PipSize |-> NoField, MinLot |-> NoField, LotStep |-> NoField]}

\* dict.get(key, default)
GetOr(v, default) == IF v = NoField THEN default ELSE v

\* int(abs(entry_price - stop_loss) * 10000) (trader.py:407-410): the float
\* product of a distance of d pips lies just above or just below d, so the
\* truncation gives d or d - 1
StopLossPips(entry, sl) ==
    LET d == Abs(entry - sl) IN IF d = 0 THEN {0} ELSE {d - 1, d}

\* Python's round(): the integer nearest to num / den, halves to the even one
RoundHalfEven(num, den) ==
    LET q == num \div den
        r == num % den
    IN  IF 2 * r < den THEN q
        ELSE IF 2 * r > den THEN q + 1
        ELSE IF q % 2 = 0 THEN q ELSE q + 1

\* FXOpenHandler.calculate_position_size for risk_amount =
\* balance * MAX_RISK_PERCENT / 100: a failed quote, a symbol without
\* information and the division by zero pips all end in the except clause.
\* position_size / lot_step, in hundredths of a lot, is
\* (balance * MAX_RISK_PERCENT) / (pips * pip_value * lot_step)
CalculatePositionSize(balance, pips, quote_ok, info) ==
    IF ~quote_ok \/ ~info.found \/ pips = 0 THEN FallbackVolume
    ELSE LET pip_value == GetOr(info.PipSize, DefaultPipSize) * 10
             min_lot == GetOr(info.MinLot, DefaultMinLot)
             lot_step == GetOr(info.LotStep, DefaultLotStep)
         IN  Max(RoundHalfEven(balance * MAX_RISK_PERCENT,
                               pips * pip_value * lot_step) * lot_step,
                 min_lot)

\* _execute_trade has been entered for an accepted BUY of the first symbol
SizingInit ==
    /\ is_running = TRUE
    /\ is_paused = FALSE
    /\ last_analysis_time = [s \in Symbols |-> IF s = CURRENCIES[1] THEN StartTime ELSE NoTime]
    /\ consecutive_losses = 0
    /\ daily_trades = 0
    /\ start_time = StartTime
    /\ ENABLE_FAILSAFE = FALSE
    /\ CLOSE_POSITIONS_ON_STOP = FALSE
    /\ pc = "execute_trade"
    /\ wake = 0
    /\ symIdx = 1
    /\ evalNow = StartTime
    /\ tfIdx = 0
    /\ market_data = Snapshot(1)
    /\ \E d \in StopDistances :
           analysis = [signal |-> "BUY", confidence |-> 90,
                       entry_price |-> EntryPrice, stop_loss |-> EntryPrice - d,
                       take_profit |-> EntryPrice + 40,
                       risk_reward_ratio |-> 200, spread |-> NoField,
                       reasons_ok |-> TRUE]
    /\ opPc = "none"
    /\ commands = 0
    /\ now = StartTime
    /\ positions = NoPositions
    /\ pendingReset = FALSE
    /\ cycleNotes = {}
    /\ loss_limit_time = [s \in Symbols |-> NoTime]
    /\ reqCall = "none"
    /\ reqAttempts = 0
    /\ reqResult = "none"
    /\ reqCount = 0
    /\ response = NoResponse
    /\ \E b \in Balances, r \in LotRules :
           sizing = [stage |-> "entered", balance |-> b, rules |-> r,
                     stop_loss_pips |-> NoField, quote_ok |-> TRUE,
                     info |-> NoInfo, volume |-> NoField]
    /\ app = NoApp

\* the frame of the sizing steps
SizingFrame ==
    UNCHANGED <<traderVars, configVars, wake, symIdx, evalNow, tfIdx,
                market_data, analysis, opVars, envVars, pendingReset,
                cycleNotes, loss_limit_time, requestVars, response, app>>

\* _execute_trade computes the arguments and calls calculate_position_size
\* (trader.py:405-411)
SizingCalled ==
    /\ pc = "execute_trade"
    /\ \E p \in StopLossPips(analysis.entry_price, analysis.stop_loss) :
           sizing' = [sizing EXCEPT !.stage = "called", !.stop_loss_pips = p]
    /\ pc' = "calculate_position_size"
    /\ SizingFrame

\* calculate_position_size returns, having got the quote or not and `info`
\* from get_symbols
SizingReturned(quote_ok, info) ==
    /\ sizing' = [sizing EXCEPT
                     !.stage = "returned", !.quote_ok = quote_ok, !.info = info,
                     !.volume = CalculatePositionSize(sizing.balance,
                                    sizing.stop_loss_pips, quote_ok, info)]
    /\ pc' = "place_order"
    /\ SizingFrame

\* get_market_data raises inside calculate_position_size (fxopen_handler.py:337)
SizingQuoteFails ==
    /\ pc = "calculate_position_size"
    /\ sizing.stage = "called"
    /\ SizingReturned(FALSE, NoInfo)

\* the quote and get_symbols have returned (fxopen_handler.py:337-341)
SizingSymbolsReturn ==
    /\ pc = "calculate_position_size"
    /\ sizing.stage = "called"
    /\ \E info \in SymbolInfos(sizing.rules) : SizingReturned(TRUE, info)

SizingNext ==
    \/ SizingCalled
    \/ SizingQuoteFails
    \/ SizingSymbolsReturn

SizingSpec == SizingInit /\ [][SizingNext]_vars

\* ---------------------------------------------------- the application
\* TradingBotApp (main.py) with the components initialize() has built: the
\* trader as constructed, the telegram bot, the failsafe manager.  start()
\* creates the trading loop task once; the telegram handlers are the only
\* callers of Trader.start, Trader.pause and Trader.emergency_stop
\* (telegram_bot.py:231, 242, 300).

\* Config.HEALTH_CHECK_INTERVAL, seconds
HEALTH_CHECK_INTERVAL == 60

\* FailsafeManager.check_system_health (failsafe.py:8-64): healthy is the
\* negation of critical on every path
HealthStatuses == {[healthy |-> ~c, critical |-> c] : c \in BOOLEAN}

\* TelegramBot defines neither send_health_alert nor
\* send_shutdown_notification (telegram_bot.py:20-475): the calls at
\* main.py:164 and main.py:207 raise AttributeError
HealthAlertSent == FALSE
ShutdownNotificationSent == FALSE

AppInit == TraderInit /\ CLOSE_POSITIONS_ON_STOP \in BOOLEAN

\* what no step of the application touches
AppFrame ==
    UNCHANGED <<configVars, loopVars, opVars, now, pendingReset, cycleNotes,
                loss_limit_time, requestVars, response, sizing>>

\* TradingBotApp.start (main.py:112-127) up to its gather: the tasks are
\* created; the health monitor is taken to its first sleep (main.py:154)
AppStart ==
    /\ app = NoApp
    /\ app' = [running |-> TRUE, loop_task |-> "created",
               polling |-> "created",
               health_wake |-> now + HEALTH_CHECK_INTERVAL, stop |-> "none"]
    /\ UNCHANGED <<traderVars, positions>>
    /\ AppFrame

\* the first step of the task of main.py:123: start_trading_loop has no await
\* before its while statement (trader.py:62-66), which it enters when
\* is_running is set and leaves for good, the task being finished, when not
LoopTaskRuns ==
    /\ app.loop_task = "created"
    /\ app' = [app EXCEPT !.loop_task = IF is_running THEN "cycling" ELSE "done"]
    /\ UNCHANGED <<traderVars, positions>>
    /\ AppFrame

\* the task of main.py:124 has started the updater (telegram_bot.py:52-60);
\* the event loop runs the first step of the tasks in the order of their
\* creation, so the loop task has run its first step before
PollingStarts ==
    /\ app.polling = "created"
    /\ app.loop_task # "created"
    /\ app' = [app EXCEPT !.polling = "started"]
    /\ UNCHANGED <<traderVars, positions>>
    /\ AppFrame

\* /start_trading, /stop_trading and the confirmed emergency stop
\* (telegram_bot.py:228-237, 239-248, 296-302)
StartTradingCommand == app.polling = "started" /\ Start
StopTradingCommand == app.polling = "started" /\ Pause
EmergencyStopCommand == app.polling = "started" /\ EmergencyStop

\* TradingBotApp.stop from its try statement on, once close_all_positions has
\* returned or was not asked for (main.py:205-219): the shutdown notification
\* comes before Trader.stop, and what it raises ends the try statement
AppStopTail(a) ==
    /\ app' = [a EXCEPT !.stop = "completed"]
    /\ IF ShutdownNotificationSent THEN StopFlags ELSE UNCHANGED traderVars

\* TradingBotApp.stop is entered (main.py:195-203)
AppStopRuns(a) ==
    IF CLOSE_POSITIONS_ON_STOP
    THEN /\ app' = [a EXCEPT !.running = FALSE, !.stop = "close_all_positions"]
         /\ UNCHANGED traderVars
    ELSE AppStopTail([a EXCEPT !.running = FALSE])

\* SIGINT or SIGTERM: the signal handler creates the stop task (main.py:221-229)
AppStop ==
    /\ app # NoApp
    /\ app.stop = "none"
    /\ AppStopRuns(app)
    /\ UNCHANGED positions
    /\ AppFrame

\* Trader.close_all_positions returns inside stop() (main.py:203)
AppCloseReturns ==
    /\ app.stop = "close_all_positions"
    /\ positions' \in {positions, NoPositions}
    /\ AppStopTail(app)
    /\ AppFrame

\* Trader.close_all_positions raises inside stop() (trader.py:476-478); the
\* except clause of stop() logs (main.py:218-219)
AppCloseRaises ==
    /\ app.stop = "close_all_positions"
    /\ app' = [app EXCEPT !.stop = "completed"]
    /\ UNCHANGED <<traderVars, positions>>
    /\ AppFrame

\* an iteration of _monitor_system_health (main.py:150-171): the alert for a
\* status that is not healthy comes before the test of critical, and what it
\* raises is logged by the except clause of the iteration
HealthMonitorChecks ==
    /\ app.running
    /\ now >= app.health_wake
    /\ \E status \in HealthStatuses :
           LET slept == [app EXCEPT !.health_wake = now + HEALTH_CHECK_INTERVAL]
           IN  IF ~status.healthy /\ HealthAlertSent /\ status.critical
                  /\ app.stop = "none"
               THEN AppStopRuns(slept)
               ELSE app' = slept /\ UNCHANGED traderVars
    /\ UNCHANGED positions
    /\ AppFrame

AppNext ==
    \/ AppStart
    \/ LoopTaskRuns
    \/ PollingStarts
    \/ StartTradingCommand
    \/ StopTradingCommand
    \/ EmergencyStopCommand
    \/ CloseAllReturns
    \/ CloseAllRaises
    \/ AppStop
    \/ AppCloseReturns
    \/ AppCloseRaises
    \/ HealthMonitorChecks
    \/ Tick

AppSpec == AppInit /\ [][AppNext]_vars

\* the event loop runs every task that is ready, and time passes
AppFairSpec ==
    /\ AppSpec
    /\ WF_vars(LoopTaskRuns)
    /\ WF_vars(PollingStarts)
    /\ WF_vars(HealthMonitorChecks)
    /\ WF_vars(Tick)

\* ---------------------------------------------- the end of a trading day
\* the trader late on a UTC day at whose start it was started and has booked all
\* but one of the trades the daily limit allows, the positions of which the
\* broker has closed since; its loop wakes from the sleep that followed the
\* last cycle, in which every symbol was analysed
DailyLimitInit ==
    /\ is_running = TRUE
    /\ is_paused = FALSE
    /\ last_analysis_time = [s \in Symbols |-> StartTime - SCAN_INTERVAL]
    /\ consecutive_losses = 0
    /\ daily_trades = DailyTradeLimit - 1
    /\ start_time = Day(StartTime) * SecondsPerDay
    /\ ENABLE_FAILSAFE = FALSE
    /\ CLOSE_POSITIONS_ON_STOP = FALSE
    /\ pc = "sleep"
    /\ wake = StartTime
    /\ symIdx = NumSymbols
    /\ evalNow = NoTime
    /\ tfIdx = 0
    /\ market_data = NoData
    /\ analysis = NoAnalysis
    /\ opPc = "none"
    /\ commands = 0
    /\ now = StartTime
    /\ positions = NoPositions
    /\ pendingReset = FALSE
    /\ cycleNotes = {}
    /\ loss_limit_time = [s \in Symbols |-> NoTime]
    /\ AuxIdle

\* the loop of a trader that stays started, with no command and the failsafe
\* off
DailyLimitNext ==
    \/ LoopBeginsCycle
    \/ AccountInfoFails
    \/ CycleBlocked
    \/ CycleStarts
    \/ QuoteFails
    \/ QuoteReturns
    \/ HistoryReturns
    \/ HistoryFails
    \/ OracleFails
    \/ OracleReturns
    \/ PositionsReturn
    \/ PositionsQueryFails
    \/ PositionSizeReturns
    \/ PlaceOrderFails
    \/ PlaceOrderEmpty
    \/ PlaceOrderFilled
    \/ PostTradeCompletes
    \/ Tick

DailyLimitSpec == DailyLimitInit /\ [][DailyLimitNext]_vars

\* ------------------------------------------------------------ properties
\* the calls made once the signal checks of the gate have passed
GatePassedPcs == {"get_positions", "calculate_position_size", "place_order",
                  "post_trade"}
\* a step in which the for loop starts the evaluation of a symbol
BeginsSymbol ==
    pc' = "get_market_data" /\ (pc # "get_market_data" \/ symIdx' # symIdx)
\* a step in which place_order is called
SubmitsOrder == pc' = "place_order" /\ pc # "place_order"
\* a step of the loop that ran _check_daily_reset (trader.py:74)
RanDailyCheck ==
    /\ AtLoopHead /\ is_running /\ ~is_paused
    /\ commands' = commands /\ now' = now
    /\ (pc' = "get_account_info" \/ is_paused')

\* C1: a symbol whose validated analysis has signal HOLD (from the oracle, by
\* coercion of an unknown signal, or the default analysis) never gets past
\* the signal checks: none of get_positions, calculate_position_size,
\* place_order and the bookkeeping is reached for it.
NoOrderForHold ==
    pc \in GatePassedPcs => analysis.signal \in {"BUY", "SELL"}

\* a HOLD with high confidence and a good ratio was rejected in this cycle,
\* and the loop has gone on to the second symbol
HoldWasRejected ==
    "hold" \in cycleNotes /\ pc = "get_market_data" /\ symIdx = 2

\* C2: once stop() has returned (is_running is false), the cycle in progress
\* starts the evaluation of no further symbol and submits no further order.
StopObservedBeforeNextSymbol ==
    [][~is_running => ~BeginsSymbol /\ ~SubmitsOrder]_vars

\* C3: the loss feedback that brings consecutive_losses to
\* MAX_CONSECUTIVE_LOSSES while the mode is Running leaves the mode Paused.
LossLimitPauses ==
    [][(/\ is_running /\ ~is_paused
        /\ consecutive_losses < MAX_CONSECUTIVE_LOSSES
        /\ consecutive_losses' >= MAX_CONSECUTIVE_LOSSES) => is_paused']_vars

\* C4: the step in which consecutive_losses reaches MAX_CONSECUTIVE_LOSSES
\* starts the evaluation of no further symbol of the cycle (no start() can
\* have come in between).
NoEvaluationAtLossLimit ==
    [][(consecutive_losses' >= MAX_CONSECUTIVE_LOSSES
            /\ consecutive_losses' # consecutive_losses) => ~BeginsSymbol]_vars

\* C5: the first daily check the loop runs after a UTC date boundary has
\* passed leaves daily_trades and consecutive_losses at zero, whatever
\* start/pause/stop commands came in between.
DailyResetAfterBoundary ==
    [][(RanDailyCheck /\ pendingReset) =>
           (daily_trades' = 0 /\ consecutive_losses' = 0)]_vars

\* C6: whenever place_order returns the broker's confirmation, the trade is
\* recorded, and when the screenshot and notification steps are over
\* daily_trades is one more and consecutive_losses is zero.
FilledOrderIsBooked ==
    [][/\ (pc = "place_order" /\ positions' # positions) => pc' = "post_trade"
       /\ (pc = "post_trade" /\ pc' # "post_trade") =>
              (daily_trades' = daily_trades + 1 /\ consecutive_losses' = 0)]_vars

\* C7: no order is submitted for a symbol whose market snapshot has a spread
\* above MAX_SPREAD_PIPS.
NoOrderOverMaxSpread ==
    pc = "place_order" => ~(market_data.spread > MAX_SPREAD_PIPS)

\* C8: no order is submitted for a symbol while the account holds
\* MAX_OPEN_POSITIONS or more positions, or one in that symbol.
NoOrderBeyondExposure ==
    pc = "place_order" =>
        (PositionCount(positions) < MAX_OPEN_POSITIONS /\ positions[Symbol] = 0)

\* C9: the sentinel snapshot of a failed market data fetch is never given to
\* the oracle, and no order comes from it.
SentinelNotEvaluated ==
    pc \in {"oracle", "place_order"} => ~market_data.error

\* C10: a cycle that has entered its for loop ends only after the loop has
\* taken every configured symbol, each of which has then been analysed,
\* whatever failed on the way.
FailureLeavesOtherSymbols ==
    (pc = "sleep" /\ symIdx # 0) =>
        (symIdx = NumSymbols /\ \A s \in Symbols : last_analysis_time[s] # NoTime)

\* something failed for the first symbol, and an order is being submitted
\* for the second in the same cycle
OrderAfterFailure ==
    "failed" \in cycleNotes /\ pc = "place_order" /\ symIdx = 2

\* C11: a market data fetch or an order placement that fails has been
\* attempted more than once by the time the failure reaches the caller.
FailingCallIsRetried ==
    [][(/\ reqCall \in {"get_market_data", "place_order"}
        /\ reqResult = "pending" /\ reqResult' = "raised") => reqAttempts > 1]_vars

\* the calls of _execute_trade (trader.py:396-468)
ExecutionPcs == {"calculate_position_size", "place_order", "post_trade"}

\* C12: an order is submitted only by the execution in progress, which has
\* no submission in flight then; while an execution is suspended no step of
\* the operator, of the monitor or of the clock changes daily_trades or
\* consecutive_losses; and the step that ends it changes them as one
\* execution does: one loss more, or one trade more and no loss, or not at
\* all.
ExecutionsAreSerialized ==
    [][/\ SubmitsOrder => pc = "calculate_position_size"
       /\ (pc \in ExecutionPcs /\ pc' \in ExecutionPcs /\ symIdx' = symIdx) =>
              UNCHANGED <<daily_trades, consecutive_losses>>
       /\ (pc \in ExecutionPcs /\ ~(pc' \in ExecutionPcs /\ symIdx' = symIdx)) =>
              \/ UNCHANGED <<daily_trades, consecutive_losses>>
              \/ /\ consecutive_losses' = consecutive_losses + 1
                 /\ daily_trades' = daily_trades
              \/ /\ consecutive_losses' = 0
                 /\ daily_trades' = daily_trades + 1]_vars

\* an order is in flight for the second symbol after a loss in the same
\* cycle, and stop() has been run since the cycle began
OrderInFlightAcrossCommand ==
    /\ pc = "place_order" /\ symIdx = 2
    /\ consecutive_losses = 1
    /\ ~is_running

\* C13: the paused flag is set only while the running flag is: the mode is
\* Running (running, not paused), Paused (running and paused) or Stopped
\* (neither), and pause() changes it only from Running.
PausedOnlyWhileRunning == is_paused => is_running

NoFundsPauses ==
    [][(pc = "get_account_info" /\ pc' = "sleep" /\ is_running /\ ~is_paused) =>
           (symIdx' = 0 /\ is_running' /\ is_paused')]_vars

\* the loop is inside evaluate_and_execute
InCycle == pc \notin {"idle", "sleep"}
\* a step in which analyze_market_data is called
CallsOracle == pc' = "oracle" /\ pc # "oracle"

\* C16: the step in which an oracle call returns sets last_analysis_time of
\* its symbol (to the time read when the evaluation began) and of no other
\* symbol; an evaluation of a symbol begins, and its oracle call is made, only
\* when the symbol was never analysed or at least SCAN_INTERVAL seconds after
\* its last analysis time; an oracle call is made only at or after the wake-up
\* time, which every cycle end sets SCAN_INTERVAL seconds ahead and which never
\* goes back, so that two oracle calls of one symbol are at least
\* SCAN_INTERVAL apart; and no cycle passes over a symbol: it ends only at the
\* account check or from its last symbol.
EvaluationsAreSpaced ==
    [][/\ (pc = "oracle" /\ pc' # "oracle") =>
              last_analysis_time' = [last_analysis_time EXCEPT ![Symbol] = evalNow]
       /\ (pc # "oracle" \/ pc' = "oracle") => last_analysis_time' = last_analysis_time
       /\ BeginsSymbol =>
              /\ Due(CURRENCIES[symIdx'], last_analysis_time')
              /\ symIdx' = (IF pc = "get_account_info" THEN 1 ELSE symIdx + 1)
       /\ CallsOracle =>
              /\ Due(Symbol, last_analysis_time)
              /\ now >= wake
              /\ evalNow <= now
       /\ (InCycle /\ pc' = "sleep") =>
              /\ wake' = now + SCAN_INTERVAL
              /\ pc = "get_account_info" \/ symIdx = NumSymbols
       /\ wake' >= wake]_vars

\* the oracle has been called for a symbol that was analysed in an earlier cycle
SecondEvaluation ==
    /\ pc = "oracle"
    /\ last_analysis_time[Symbol] # NoTime
    /\ now - last_analysis_time[Symbol] >= SCAN_INTERVAL

\* C17: for COOLDOWN_PERIOD after a loss of a symbol has brought
\* consecutive_losses to MAX_CONSECUTIVE_LOSSES, no evaluation of that symbol
\* begins and no order is submitted for it.
CooldownSkipsSymbol ==
    [][\A s \in Symbols :
           (/\ loss_limit_time[s] # NoTime
            /\ now < loss_limit_time[s] + COOLDOWN_PERIOD) =>
               /\ ~(BeginsSymbol /\ CURRENCIES[symIdx'] = s)
               /\ ~(SubmitsOrder /\ Symbol = s)]_vars

\* the analysis has been returned for the response held in `response`
AnalysisReturned == pc = "is_signal_actionable"

\* C18: a validated BUY or SELL with confidence below 0.70 is rejected by the
\* signal checks, before the positions are asked for, whatever its prices,
\* risk:reward and spread and whatever positions are open; with confidence
\* exactly 0.70 it is rejected only if the spread or the risk:reward check
\* rejects it.
LowConfidenceRejected ==
    [][(AnalysisReturned /\ analysis.signal \in {"BUY", "SELL"}) =>
           /\ analysis.confidence < MinConfidencePct => pc' = "rejected"
           /\ (/\ analysis.confidence = MinConfidencePct
               /\ GateSpread(analysis) <= MAX_SPREAD_PIPS
               /\ analysis.risk_reward_ratio >= MinRiskRewardX100) =>
                  pc' = "get_positions"]_vars

\* a SELL with confidence exactly 0.70 has passed the signal checks and the
\* exposure checks
ThresholdConfidenceAccepted ==
    /\ pc = "calculate_position_size"
    /\ analysis.signal = "SELL"
    /\ analysis.confidence = MinConfidencePct
    /\ response.confidence = MinConfidencePct

\* the response is no JSON object with the required fields: the call raised,
\* the content did not parse, or a required key is absent
Malformed(resp) == resp.kind # "object" \/ resp.absent # {}

\* C19: whatever the response (the call raising included), the analysis
\* returned has a side in {BUY, SELL, HOLD} and a confidence in [0, 1]; when
\* the object is validated, a side outside the set has become HOLD and the
\* confidence is the oracle's clamped to [0, 1]; a malformed response gives
\* HOLD with confidence 0.
AnalysisIsTotal ==
    AnalysisReturned =>
        /\ analysis.signal \in {"BUY", "SELL", "HOLD"}
        /\ analysis.confidence \in 0..100
        /\ (~Malformed(response) /\ ~ConversionFails(response, market_data)) =>
               /\ analysis.signal =
                      (IF response.signal \in {"BUY", "SELL", "HOLD"}
                       THEN response.signal ELSE "HOLD")
               /\ analysis.confidence = Max(0, Min(100, response.confidence))
        /\ Malformed(response) =>
               (analysis.signal = "HOLD" /\ analysis.confidence = 0)

\* an unknown side with a confidence above 1 has been coerced and clamped
CoercedAndClamped ==
    /\ AnalysisReturned
    /\ response.kind = "object" /\ response.absent = {}
    /\ response.signal = "STRONG_BUY" /\ response.confidence = 150
    /\ analysis.signal = "HOLD" /\ analysis.confidence = 100

\* C20: an object with a valid side and a confidence in [0, 1] that lacks
\* some of entry_price, stop_loss, take_profit is returned with the oracle's
\* side and confidence and with each missing price equal to the snapshot's
\* current_price (the snapshot being quoted and the prices given being
\* numbers).
MissingPricesFilled ==
    (/\ AnalysisReturned
     /\ response.kind = "object"
     /\ response.absent # {} /\ response.absent \subseteq PriceFields
     /\ response.signal \in {"BUY", "SELL", "HOLD"}
     /\ response.confidence \in 0..100
     /\ ("entry_price" \in response.absent \/ response.entry_price # NotNumber)
     /\ market_data.current_price > 0) =>
        /\ analysis.signal = response.signal
        /\ analysis.confidence = response.confidence
        /\ "entry_price" \in response.absent =>
               analysis.entry_price = market_data.current_price
        /\ "stop_loss" \in response.absent =>
               analysis.stop_loss = market_data.current_price
        /\ "take_profit" \in response.absent =>
               analysis.take_profit = market_data.current_price

\* the validated analysis of a BUY or SELL object that has all its required
\* keys, with numbers for confidence and prices
ValidatedTrade ==
    /\ AnalysisReturned
    /\ ~Malformed(response)
    /\ response.signal \in {"BUY", "SELL"}
    /\ response.confidence # NotNumber
    /\ NotNumber \notin {response.entry_price, response.stop_loss,
                         response.take_profit}

\* C21: for a BUY or SELL without risk_reward_ratio an analysis is returned
\* (nothing faults) whose ratio r, in hundredths, is the quotient of
\* |take_profit - entry| by |entry - stop_loss| when entry # stop_loss
\* (r * risk <= 100 * reward < (r + 1) * risk), and is 1.0 when
\* entry = stop_loss; the side is kept in both cases.
DerivedRatioIsRewardOverRisk ==
    (ValidatedTrade /\ response.risk_reward_ratio = NoField) =>
        LET risk == Abs(response.entry_price - response.stop_loss)
            reward == Abs(response.take_profit - response.entry_price)
            r == analysis.risk_reward_ratio
        IN  /\ analysis.signal = response.signal
            /\ risk = 0 => r = 100
            /\ risk > 0 => (r * risk <= 100 * reward /\ 100 * reward < (r + 1) * risk)

\* a BUY whose entry equals its stop has been given the ratio 1.0
ZeroRiskRatioIsOne ==
    /\ ValidatedTrade
    /\ response.risk_reward_ratio = NoField
    /\ response.signal = "BUY"
    /\ response.entry_price = response.stop_loss
    /\ analysis.risk_reward_ratio = 100

\* C22: no BUY or SELL whose ratio computed from its own prices is below 1.5
\* gets past the signal checks, whatever ratio the oracle wrote.
GateUsesPriceRatio ==
    (/\ pc \in {"get_positions", "calculate_position_size"}
     /\ response.kind = "object"
     /\ NotNumber \notin {analysis.entry_price, analysis.stop_loss,
                          analysis.take_profit}) =>
        DerivedRiskReward(analysis.signal, analysis.entry_price,
                          analysis.stop_loss, analysis.take_profit)
            >= MinRiskRewardX100

\* calculate_position_size has returned a volume
VolumeReturned == pc = "place_order" /\ sizing.stage = "returned"
\* ... with the quote and the symbol's lot constraints at hand
SizedWithRules ==
    /\ VolumeReturned
    /\ sizing.quote_ok /\ sizing.info.found
    /\ sizing.info.MinLot # NoField

\* C23: every volume calculate_position_size returns, the fallback paths
\* included, is at least the symbol's min_lot and a multiple of its lot_step.
VolumeRespectsLotRules ==
    VolumeReturned =>
        /\ sizing.volume >= sizing.rules.MinLot
        /\ sizing.volume % sizing.rules.LotStep = 0

\* C24: with a positive stop distance, the quote and the lot constraints at
\* hand, the volume is raw_size floored to a multiple of lot_step, raised to
\* min_lot if smaller (raw_size / lot_step is
\* balance * MAX_RISK_PERCENT / (pips * pip_value * lot_step)).
VolumeIsFlooredRawSize ==
    (SizedWithRules /\ sizing.stop_loss_pips > 0) =>
        LET r == sizing.rules
            steps == (sizing.balance * MAX_RISK_PERCENT)
                         \div (sizing.stop_loss_pips * r.PipSize * 10 * r.LotStep)
        IN  sizing.volume = Max(steps * r.LotStep, r.MinLot)

\* C25: with a stop distance of zero pips, the quote and the lot constraints
\* at hand, the volume is the size obtained with risk_amount as the risk per
\* pip (rounded down or to the nearest lot step), and not below min_lot.
ZeroStopSizedFromRiskAmount ==
    (SizedWithRules /\ sizing.stop_loss_pips = 0) =>
        LET r == sizing.rules
            num == sizing.balance * MAX_RISK_PERCENT
            den == r.PipSize * 10 * r.LotStep
        IN  /\ sizing.volume \in {Max((num \div den) * r.LotStep, r.MinLot),
                                  Max(RoundHalfEven(num, den) * r.LotStep, r.MinLot)}
            /\ sizing.volume >= r.MinLot

\* C26: once start() has been called, the scheduler is cycling: while the
\* mode stays Running (started and not paused), the trading loop task comes
\* to be inside its while statement, without which no symbol is evaluated.
SchedulerCyclesOnceStarted ==
    (is_running /\ ~is_paused)
        ~> (~is_running \/ is_paused \/ app.loop_task = "cycling")

\* C27: with ENABLE_FAILSAFE on, an iteration of the loop in mode Running
\* (the step the loop takes from the head of its while statement, which is
\* neither a command nor the clock) does not set the paused flag and is
\* suspended in evaluate_and_execute, at its first call.
FailsafeOnRunsCycle ==
    [][(/\ AtLoopHead /\ is_running /\ ~is_paused
        /\ ENABLE_FAILSAFE
        /\ commands' = commands /\ now' = now)
       => (~is_paused' /\ pc' = "get_account_info")]_vars

\* a step in which place_order raises for a symbol that is not the last of
\* its cycle: the order is left without a position opened, and the failure
\* is noted for the cycle on account of the order alone
OrderPlacementRaises ==
    /\ pc = "place_order"
    /\ positions' = positions
    /\ "failed" \in cycleNotes'
    /\ "failed" \notin Noted("empty")
\* a step in which the gate turns the analysis down: at its signal checks
\* (a HOLD, a low confidence, a low ratio, a wide spread) or at its exposure
\* checks
SignalRejected ==
    \/ pc = "oracle" /\ pc' \notin {"oracle", "get_positions"}
    \/ pc = "get_positions" /\ pc' \notin {"get_positions", "calculate_position_size"}

\* C28: when the order placement of an accepted signal raises,
\* consecutive_losses grows by exactly 1 and daily_trades is unchanged; the
\* rejection of a signal (a HOLD included) leaves consecutive_losses,
\* daily_trades and the mode unchanged.
FailedOrderCountsOneLoss ==
    [][/\ OrderPlacementRaises =>
              /\ consecutive_losses' = consecutive_losses + 1
              /\ daily_trades' = daily_trades
       /\ SignalRejected =>
              UNCHANGED <<consecutive_losses, daily_trades, is_running,
                          is_paused>>]_vars

\* the order of the first symbol has raised, the only loss so far and with no
\* order filled, and the cycle has gone on to the second symbol, which was
\* never analysed before
FirstOrderRaised ==
    /\ consecutive_losses = 1
    /\ daily_trades = 0
    /\ positions[CURRENCIES[1]] = 0
    /\ positions[CURRENCIES[2]] = 0
    /\ pc = "get_market_data"
    /\ symIdx = 2
    /\ last_analysis_time[CURRENCIES[2]] = NoTime
    /\ "failed" \in cycleNotes

\* C29: daily_trades never exceeds the daily limit of 10 between two daily
\* resets: the symbols that remain in the cycle in which the tenth trade is
\* booked are not traded.
DailyTradesWithinLimit == daily_trades <= DailyTradeLimit

\* C30: when the application's stop() completes, with or without an error
\* raised while the positions are closed, the trader's mode is Stopped.
AppStopStopsTrader ==
    [][(app.stop # "completed" /\ app'.stop = "completed")
       => (~is_running' /\ ~is_paused')]_vars

=============================================================================
